---------------------------- MODULE Spec2Model ----------------------------
(***************************************************************************)
(* Model of purpledb's page buffer pool (src/src/page_store.rs) together   *)
(* with the TestStorage backend (src/src/storage.rs).                      *)
(*                                                                         *)
(* The pool is the single RefCell<PoolInternal>: every PoolInternal method *)
(* is a pure operator from a pool value to a result and a new pool value,  *)
(* and every public entry point (PageStore::pin_page, allocate_page,       *)
(* PinnedPage::try_read, try_write, the three Drop impls and the write     *)
(* through DerefMut) is one action.  PinnedPage, ConstPage and MutPage     *)
(* objects are kept in two tables so that the borrow of a handle by its    *)
(* guards can be expressed.                                                *)
(***************************************************************************)
EXTENDS Integers, Sequences, FiniteSets, TLC

\* ------------------------------------------------------------------ bounds
\* Arena capacity.  40 in the source; scaled down so that a full pool is
\* reachable.
POOL_SIZE == 2

\* Length of a page buffer.  4096 in the source; scaled down.
PAGE_LEN == 1

\* Largest number of PinnedPage objects alive at once.
MaxHandles == 2

\* Largest number of ConstPage / MutPage objects alive at once.
MaxGuards == 2

\* Largest PageId.offset in use; there is one more id than the arena holds.
MaxPageId == 2

PageIds == 0 .. MaxPageId

Offsets == 0 .. (PAGE_LEN - 1)

\* Values of a u8 that the model writes and preloads.
Bytes == {0, 255}

\* Pages put on the backend with write_page before PageStore::new takes it.
PreloadedIds == {0}

\* Data = [u8; 4096]
Data == [Offsets -> Bytes]

\* [0u8; 4096]
ZeroData == [o \in Offsets |-> 0]

HandleIds == 1 .. MaxHandles
GuardIds == 1 .. MaxGuards

VARIABLES
    pool,       \* PageStore.pool : storage, pages, page_state
    handles,    \* live PinnedPage objects, by handle id
    guards,     \* live ConstPage / MutPage objects, by guard id
    last,       \* the last call: operation, page, result, backend calls made
    panicked,   \* an unwrap() in a Drop impl has panicked
    written,    \* per page, the offsets stored to through a MutPage, each
                \* with the byte stored last
    full_seen   \* some pin_page has returned PoolIsFull

vars == <<pool, handles, guards, last, panicked, written, full_seen>>

\* ------------------------------------------------------------ TestStorage
\* TestStorage.map is a function from the page ids it holds to their bytes.

TestStorage_load_page(map, page) ==
    IF page \in DOMAIN map
      THEN [res |-> "Ok", buf |-> map[page]]
      ELSE [res |-> "NotFound", buf |-> ZeroData]

TestStorage_create_page(map, page) ==
    IF page \in DOMAIN map
      THEN [res |-> "PageAlreadyExists", map |-> map]
      ELSE [res |-> "Ok", map |-> (page :> ZeroData) @@ map]

\* StorageError wrapped by PageError::Storage
StorageErr(e) ==
    IF e = "NotFound" THEN "Storage(NotFound)" ELSE "Storage(PageAlreadyExists)"

\* ----------------------------------------------------------- PoolInternal
\* PoolInternal::new
PoolInternal_new(storage) ==
    [storage |-> storage, pages |-> <<>>, page_state |-> <<>>]

\* allocate_page with the capacity test off by one: > instead of >=
Mut_allocate_page_off_by_one(p) ==
    IF Len(p.pages) > POOL_SIZE
      THEN [res |-> "PoolIsFull", pool |-> p,
            meta |-> [index |-> 0, pins |-> 0, readers |-> 0, writer |-> FALSE]]
      ELSE [res |-> "Ok",
            pool |-> [p EXCEPT !.pages = Append(p.pages, ZeroData)],
            meta |-> [index |-> Len(p.pages) + 1, pins |-> 0,
                      readers |-> 0, writer |-> FALSE]]

\* allocate_page that hands out the first slot to every page: index = 0
Mut_allocate_page_first_slot(p) ==
    IF Len(p.pages) >= POOL_SIZE
      THEN [res |-> "PoolIsFull", pool |-> p,
            meta |-> [index |-> 0, pins |-> 0, readers |-> 0, writer |-> FALSE]]
      ELSE [res |-> "Ok",
            pool |-> [p EXCEPT !.pages = Append(p.pages, ZeroData)],
            meta |-> [index |-> 1, pins |-> 0,
                      readers |-> 0, writer |-> FALSE]]

\* PoolInternal::allocate_page.  Slot indexes are 0-based in the source and
\* 1-based here (pages is a TLA+ sequence): index = pages.len() + 1.
PoolInternal_allocate_page(p) ==
    IF Len(p.pages) >= POOL_SIZE
      THEN [res |-> "PoolIsFull", pool |-> p,
            meta |-> [index |-> 0, pins |-> 0, readers |-> 0, writer |-> FALSE]]
      ELSE [res |-> "Ok",
            pool |-> [p EXCEPT !.pages = Append(p.pages, ZeroData)],
            meta |-> [index |-> Len(p.pages) + 1, pins |-> 0,
                      readers |-> 0, writer |-> FALSE]]

\* pin_page that forgets meta.pins += 1 for a page already in the directory
Mut_pin_page_no_increment(p, page) ==
    IF page \in DOMAIN p.page_state
      THEN [res |-> "Ok", calls |-> <<>>, pool |-> p]
      ELSE LET a == PoolInternal_allocate_page(p) IN
           IF a.res # "Ok"
             THEN [res |-> a.res, calls |-> <<>>, pool |-> p]
             ELSE LET meta == [a.meta EXCEPT !.pins = @ + 1]
                      p1 == [a.pool EXCEPT
                               !.page_state = (page :> meta) @@ p.page_state]
                      l == TestStorage_load_page(p1.storage, page)
                  IN  IF l.res # "Ok"
                        THEN [res |-> StorageErr(l.res),
                              calls |-> <<"load_page">>, pool |-> p1]
                        ELSE [res |-> "Ok", calls |-> <<"load_page">>,
                              pool |-> [p1 EXCEPT !.pages[meta.index] = l.buf]]

\* pin_page that loads the page from the backend on every pin, resident or not
Mut_pin_page_reload(p, page) ==
    IF page \in DOMAIN p.page_state
      THEN LET p1 == [p EXCEPT !.page_state[page].pins = @ + 1]
               l == TestStorage_load_page(p1.storage, page)
           IN  IF l.res # "Ok"
                 THEN [res |-> StorageErr(l.res),
                       calls |-> <<"load_page">>, pool |-> p1]
                 ELSE [res |-> "Ok", calls |-> <<"load_page">>,
                       pool |-> [p1 EXCEPT
                                   !.pages[p.page_state[page].index] = l.buf]]
      ELSE LET a == PoolInternal_allocate_page(p) IN
           IF a.res # "Ok"
             THEN [res |-> a.res, calls |-> <<>>, pool |-> p]
             ELSE LET meta == [a.meta EXCEPT !.pins = @ + 1]
                      p1 == [a.pool EXCEPT
                               !.page_state = (page :> meta) @@ p.page_state]
                      l == TestStorage_load_page(p1.storage, page)
                  IN  IF l.res # "Ok"
                        THEN [res |-> StorageErr(l.res),
                              calls |-> <<"load_page">>, pool |-> p1]
                        ELSE [res |-> "Ok", calls |-> <<"load_page">>,
                              pool |-> [p1 EXCEPT !.pages[meta.index] = l.buf]]

\* PoolInternal::pin_page.  calls lists the backend calls made.
PoolInternal_pin_page(p, page) ==
    IF page \in DOMAIN p.page_state
      THEN [res |-> "Ok", calls |-> <<>>,
            pool |-> [p EXCEPT !.page_state[page].pins = @ + 1]]
      ELSE LET a == PoolInternal_allocate_page(p) IN
           IF a.res # "Ok"
             THEN [res |-> a.res, calls |-> <<>>, pool |-> p]
             ELSE LET meta == [a.meta EXCEPT !.pins = @ + 1]
                      p1 == [a.pool EXCEPT
                               !.page_state = (page :> meta) @@ p.page_state]
                      l == TestStorage_load_page(p1.storage, page)
                  IN  IF l.res # "Ok"
                        THEN [res |-> StorageErr(l.res),
                              calls |-> <<"load_page">>, pool |-> p1]
                        ELSE [res |-> "Ok", calls |-> <<"load_page">>,
                              pool |-> [p1 EXCEPT !.pages[meta.index] = l.buf]]

\* create_and_pin_page in the other order: pin first, then create_page
Mut_create_and_pin_page_pin_first(p, page) ==
    LET r == PoolInternal_pin_page(p, page) IN
    IF r.res # "Ok"
      THEN r
      ELSE LET c == TestStorage_create_page(r.pool.storage, page) IN
           IF c.res # "Ok"
             THEN [res |-> StorageErr(c.res),
                   calls |-> r.calls \o <<"create_page">>, pool |-> r.pool]
             ELSE [res |-> "Ok", calls |-> r.calls \o <<"create_page">>,
                   pool |-> [r.pool EXCEPT !.storage = c.map]]

\* PoolInternal::create_and_pin_page
PoolInternal_create_and_pin_page(p, page) ==
    LET c == TestStorage_create_page(p.storage, page) IN
    IF c.res # "Ok"
      THEN [res |-> StorageErr(c.res), calls |-> <<"create_page">>, pool |-> p]
      ELSE LET r == PoolInternal_pin_page([p EXCEPT !.storage = c.map], page)
           IN  [r EXCEPT !.calls = <<"create_page">> \o @]

\* PoolInternal::get_meta
PoolInternal_get_meta(p, page) ==
    IF page \in DOMAIN p.page_state THEN "Ok" ELSE "PageNotInPool"

\* unpin_page that evicts: the entry of a page whose last pin goes is removed
Mut_unpin_page_evict(p, page) ==
    IF PoolInternal_get_meta(p, page) # "Ok"
      THEN [res |-> "PageNotInPool", pool |-> p]
    ELSE IF p.page_state[page].pins = 0
      THEN [res |-> "Overflow", pool |-> p]
    ELSE IF p.page_state[page].pins = 1
      THEN [res |-> "Ok",
            pool |-> [p EXCEPT !.page_state =
                        [q \in DOMAIN p.page_state \ {page} |-> p.page_state[q]]]]
      ELSE [res |-> "Ok", pool |-> [p EXCEPT !.page_state[page].pins = @ - 1]]

\* unpin_page that clears the counter instead of lowering it: meta.pins = 0
Mut_unpin_page_reset(p, page) ==
    IF PoolInternal_get_meta(p, page) # "Ok"
      THEN [res |-> "PageNotInPool", pool |-> p]
      ELSE [res |-> "Ok", pool |-> [p EXCEPT !.page_state[page].pins = 0]]

\* PoolInternal::unpin_page.  pins is a usize: pins -= 1 at 0 overflows, which
\* panics in a build with overflow checks; the result "Overflow" stands for it.
PoolInternal_unpin_page(p, page) ==
    IF PoolInternal_get_meta(p, page) # "Ok"
      THEN [res |-> "PageNotInPool", pool |-> p]
    ELSE IF p.page_state[page].pins = 0
      THEN [res |-> "Overflow", pool |-> p]
      ELSE [res |-> "Ok", pool |-> [p EXCEPT !.page_state[page].pins = @ - 1]]

\* try_get_read that forgets meta.readers += 1
Mut_try_get_read_no_increment(p, page) ==
    IF PoolInternal_get_meta(p, page) # "Ok"
      THEN [res |-> "PageNotInPool", data |-> 0, pool |-> p]
    ELSE IF p.page_state[page].writer
      THEN [res |-> "PageInUseForWrite", data |-> 0, pool |-> p]
      ELSE [res |-> "Ok", data |-> p.page_state[page].index, pool |-> p]

\* try_get_read without the test of meta.writer
Mut_try_get_read_no_writer_test(p, page) ==
    IF PoolInternal_get_meta(p, page) # "Ok"
      THEN [res |-> "PageNotInPool", data |-> 0, pool |-> p]
      ELSE [res |-> "Ok", data |-> p.page_state[page].index,
            pool |-> [p EXCEPT !.page_state[page].readers = @ + 1]]

\* try_get_read that also refuses a page that is being read
Mut_try_get_read_exclusive(p, page) ==
    IF PoolInternal_get_meta(p, page) # "Ok"
      THEN [res |-> "PageNotInPool", data |-> 0, pool |-> p]
    ELSE IF p.page_state[page].writer
      THEN [res |-> "PageInUseForWrite", data |-> 0, pool |-> p]
    ELSE IF p.page_state[page].readers > 0
      THEN [res |-> "PageInUseForRead", data |-> 0, pool |-> p]
      ELSE [res |-> "Ok", data |-> p.page_state[page].index,
            pool |-> [p EXCEPT !.page_state[page].readers = @ + 1]]

\* PoolInternal::try_get_read.  data is the returned pointer: the slot index.
PoolInternal_try_get_read(p, page) ==
    IF PoolInternal_get_meta(p, page) # "Ok"
      THEN [res |-> "PageNotInPool", data |-> 0, pool |-> p]
    ELSE IF p.page_state[page].writer
      THEN [res |-> "PageInUseForWrite", data |-> 0, pool |-> p]
      ELSE [res |-> "Ok", data |-> p.page_state[page].index,
            pool |-> [p EXCEPT !.page_state[page].readers = @ + 1]]

\* release_read that clears the counter instead of lowering it: readers = 0
Mut_release_read_reset(p, page) ==
    IF PoolInternal_get_meta(p, page) # "Ok"
      THEN [res |-> "PageNotInPool", pool |-> p]
      ELSE [res |-> "Ok", pool |-> [p EXCEPT !.page_state[page].readers = 0]]

\* PoolInternal::release_read
PoolInternal_release_read(p, page) ==
    IF PoolInternal_get_meta(p, page) # "Ok"
      THEN [res |-> "PageNotInPool", pool |-> p]
    ELSE IF p.page_state[page].readers = 0
      THEN [res |-> "Overflow", pool |-> p]
      ELSE [res |-> "Ok",
            pool |-> [p EXCEPT !.page_state[page].readers = @ - 1]]

\* try_get_write without the test of meta.writer
Mut_try_get_write_no_writer_test(p, page) ==
    IF PoolInternal_get_meta(p, page) # "Ok"
      THEN [res |-> "PageNotInPool", data |-> 0, pool |-> p]
    ELSE IF p.page_state[page].readers > 0
      THEN [res |-> "PageInUseForRead", data |-> 0, pool |-> p]
      ELSE [res |-> "Ok", data |-> p.page_state[page].index,
            pool |-> [p EXCEPT !.page_state[page].writer = TRUE]]

\* try_get_write without the test of meta.readers
Mut_try_get_write_no_readers_test(p, page) ==
    IF PoolInternal_get_meta(p, page) # "Ok"
      THEN [res |-> "PageNotInPool", data |-> 0, pool |-> p]
    ELSE IF p.page_state[page].writer
      THEN [res |-> "PageInUseForWrite", data |-> 0, pool |-> p]
      ELSE [res |-> "Ok", data |-> p.page_state[page].index,
            pool |-> [p EXCEPT !.page_state[page].writer = TRUE]]

\* PoolInternal::try_get_write
PoolInternal_try_get_write(p, page) ==
    IF PoolInternal_get_meta(p, page) # "Ok"
      THEN [res |-> "PageNotInPool", data |-> 0, pool |-> p]
    ELSE IF p.page_state[page].writer
      THEN [res |-> "PageInUseForWrite", data |-> 0, pool |-> p]
    ELSE IF p.page_state[page].readers > 0
      THEN [res |-> "PageInUseForRead", data |-> 0, pool |-> p]
      ELSE [res |-> "Ok", data |-> p.page_state[page].index,
            pool |-> [p EXCEPT !.page_state[page].writer = TRUE]]

\* release_write that forgets meta.writer = false
Mut_release_write_no_clear(p, page) ==
    IF PoolInternal_get_meta(p, page) # "Ok"
      THEN [res |-> "PageNotInPool", pool |-> p]
      ELSE [res |-> "Ok", pool |-> p]

\* release_write that clears the writer flag of every page in the directory
Mut_release_write_all_pages(p, page) ==
    IF PoolInternal_get_meta(p, page) # "Ok"
      THEN [res |-> "PageNotInPool", pool |-> p]
      ELSE [res |-> "Ok",
            pool |-> [p EXCEPT !.page_state =
                        [q \in DOMAIN p.page_state |->
                           [p.page_state[q] EXCEPT !.writer = FALSE]]]]

\* PoolInternal::release_write
PoolInternal_release_write(p, page) ==
    IF PoolInternal_get_meta(p, page) # "Ok"
      THEN [res |-> "PageNotInPool", pool |-> p]
      ELSE [res |-> "Ok", pool |-> [p EXCEPT !.page_state[page].writer = FALSE]]

\* ------------------------------------------------------- object tables
\* Record of one call: the operation, its page, the Result and the backend
\* calls it made
Call(op, page, res, calls) ==
    [op |-> op, page |-> page, res |-> res, calls |-> calls]

\* Remove key k from function f
Remove(f, k) == [x \in (DOMAIN f) \ {k} |-> f[x]]

\* Lowest unused id of a table
FreeId(ids, f) == CHOOSE i \in ids \ DOMAIN f : \A j \in ids \ DOMAIN f : i <= j

\* Guards that borrow handle h
GuardsOf(h) == {g \in DOMAIN guards : guards[g].pinned = h}

\* Live guards of one kind on a page, through all of its handles
GuardsOn(page, kind) ==
    {g \in DOMAIN guards :
        guards[g].kind = kind /\ handles[guards[g].pinned].id = page}

HandlesOn(page) == {h \in DOMAIN handles : handles[h].id = page}

\* Deref for ConstPage / MutPage: the bytes behind the guard's pointer
Guard_deref(g) == pool.pages[guards[g].data]

\* ------------------------------------------------------------------ Init
\* PageStore::new(storage): the backend already holds the preloaded pages,
\* filled with 255, and no other page; the pool is empty and no handle exists.
Init ==
    /\ pool = PoolInternal_new([i \in PreloadedIds |-> [o \in Offsets |-> 255]])
    /\ handles = <<>>
    /\ guards = <<>>
    /\ last = Call("new", 0, "Ok", <<>>)
    /\ panicked = FALSE
    /\ written = [i \in PageIds |-> <<>>]
    /\ full_seen = FALSE

\* --------------------------------------------------------------- actions
\* PageStore::pin_page
PageStore_pin_page(page) ==
    /\ ~panicked
    /\ LET r == PoolInternal_pin_page(pool, page) IN
       /\ r.res = "Ok" => Cardinality(DOMAIN handles) < MaxHandles
       /\ pool' = r.pool
       /\ handles' = IF r.res = "Ok"
                       THEN (FreeId(HandleIds, handles) :> [id |-> page]) @@ handles
                       ELSE handles
       /\ last' = Call("pin_page", page, r.res, r.calls)
       /\ full_seen' = (full_seen \/ r.res = "PoolIsFull")
    /\ UNCHANGED <<guards, panicked, written>>

\* PageStore::allocate_page
PageStore_allocate_page(page) ==
    /\ ~panicked
    /\ LET r == PoolInternal_create_and_pin_page(pool, page) IN
       /\ r.res = "Ok" => Cardinality(DOMAIN handles) < MaxHandles
       /\ pool' = r.pool
       /\ handles' = IF r.res = "Ok"
                       THEN (FreeId(HandleIds, handles) :> [id |-> page]) @@ handles
                       ELSE handles
       /\ last' = Call("allocate_page", page, r.res, r.calls)
    /\ UNCHANGED <<guards, panicked, written, full_seen>>

\* PinnedPage::try_read
PinnedPage_try_read(h) ==
    /\ ~panicked
    /\ h \in DOMAIN handles
    /\ LET r == PoolInternal_try_get_read(pool, handles[h].id) IN
       /\ r.res = "Ok" => Cardinality(DOMAIN guards) < MaxGuards
       /\ pool' = r.pool
       /\ guards' = IF r.res = "Ok"
                      THEN (FreeId(GuardIds, guards) :>
                              [pinned |-> h, kind |-> "read", data |-> r.data])
                           @@ guards
                      ELSE guards
       /\ last' = Call("try_read", handles[h].id, r.res, <<>>)
    /\ UNCHANGED <<handles, panicked, written, full_seen>>

\* PinnedPage::try_write
PinnedPage_try_write(h) ==
    /\ ~panicked
    /\ h \in DOMAIN handles
    /\ LET r == PoolInternal_try_get_write(pool, handles[h].id) IN
       /\ r.res = "Ok" => Cardinality(DOMAIN guards) < MaxGuards
       /\ pool' = r.pool
       /\ guards' = IF r.res = "Ok"
                      THEN (FreeId(GuardIds, guards) :>
                              [pinned |-> h, kind |-> "write", data |-> r.data])
                           @@ guards
                      ELSE guards
       /\ last' = Call("try_write", handles[h].id, r.res, <<>>)
    /\ UNCHANGED <<handles, panicked, written, full_seen>>

\* DerefMut for MutPage, used to store one byte: (*guard)[off] = v
MutPage_deref_mut(g, off, v) ==
    /\ ~panicked
    /\ g \in DOMAIN guards
    /\ guards[g].kind = "write"
    /\ pool' = [pool EXCEPT !.pages[guards[g].data][off] = v]
    /\ written' = [written EXCEPT
                      ![handles[guards[g].pinned].id] = (off :> v) @@ @]
    /\ last' = Call("deref_mut", handles[guards[g].pinned].id, "Ok", <<>>)
    /\ UNCHANGED <<handles, guards, panicked, full_seen>>

\* Drop for PinnedPage.  The guards borrow the handle ('pin), so the handle
\* is dropped only when none of its guards is alive.
PinnedPage_drop(h) ==
    /\ ~panicked
    /\ h \in DOMAIN handles
    /\ GuardsOf(h) = {}
    /\ LET r == PoolInternal_unpin_page(pool, handles[h].id) IN
       /\ pool' = r.pool
       /\ panicked' = (r.res # "Ok")
       /\ last' = Call("drop_pinned", handles[h].id, r.res, <<>>)
    /\ handles' = Remove(handles, h)
    /\ UNCHANGED <<guards, written, full_seen>>

\* Drop for ConstPage
ConstPage_drop(g) ==
    /\ ~panicked
    /\ g \in DOMAIN guards
    /\ guards[g].kind = "read"
    /\ LET page == handles[guards[g].pinned].id
           r == PoolInternal_release_read(pool, page) IN
       /\ pool' = r.pool
       /\ panicked' = (r.res # "Ok")
       /\ last' = Call("drop_const", page, r.res, <<>>)
    /\ guards' = Remove(guards, g)
    /\ UNCHANGED <<handles, written, full_seen>>

\* Drop for MutPage
MutPage_drop(g) ==
    /\ ~panicked
    /\ g \in DOMAIN guards
    /\ guards[g].kind = "write"
    /\ LET page == handles[guards[g].pinned].id
           r == PoolInternal_release_write(pool, page) IN
       /\ pool' = r.pool
       /\ panicked' = (r.res # "Ok")
       /\ last' = Call("drop_mut", page, r.res, <<>>)
    /\ guards' = Remove(guards, g)
    /\ UNCHANGED <<handles, written, full_seen>>

Next ==
    \/ \E page \in PageIds : PageStore_pin_page(page)
    \/ \E page \in PageIds : PageStore_allocate_page(page)
    \/ \E h \in HandleIds : PinnedPage_try_read(h)
    \/ \E h \in HandleIds : PinnedPage_try_write(h)
    \/ \E g \in GuardIds, off \in Offsets, v \in Bytes : MutPage_deref_mut(g, off, v)
    \/ \E h \in HandleIds : PinnedPage_drop(h)
    \/ \E g \in GuardIds : ConstPage_drop(g)
    \/ \E g \in GuardIds : MutPage_drop(g)

Spec == Init /\ [][Next]_vars


\* ------------------------------------------------------------- properties
\* page_state.contains_key(page)
Resident(page) == page \in DOMAIN pool.page_state

\* page_state[page]
Meta(page) == pool.page_state[page]

\* C1 - Exclusivity: for every page, counting the guards obtained through all
\* of its handles, at most one write guard is alive and a live write guard
\* never coexists with a live read guard; in the directory, writer == true
\* implies readers == 0.
C1_Exclusivity ==
    \A p \in PageIds :
        /\ Cardinality(GuardsOn(p, "write")) <= 1
        /\ GuardsOn(p, "write") # {} => GuardsOn(p, "read") = {}
        /\ Resident(p) => (Meta(p).writer => Meta(p).readers = 0)

\* A write guard is alive on a page that has two handles, and a try_read on
\* that page has just been refused.
C1_Witness ==
    \E p \in PageIds :
        /\ GuardsOn(p, "write") # {}
        /\ Cardinality(HandlesOn(p)) = 2
        /\ last = Call("try_read", p, "PageInUseForWrite", <<>>)

\* C2 - try_write through any handle of a page, called while a read guard of
\* that page is alive and no write guard is, returns PageInUseForRead and
\* creates no guard.
C2_WriteRefusedWhileRead ==
    [][\A h \in HandleIds :
         (/\ PinnedPage_try_write(h)
          /\ GuardsOn(handles[h].id, "read") # {}
          /\ GuardsOn(handles[h].id, "write") = {})
         => (/\ last'.res = "PageInUseForRead"
             /\ guards' = guards
             /\ pool' = pool)]_vars

\* A try_write has just been refused with PageInUseForRead while a read guard
\* of the page is alive.
C2_Witness ==
    \E p \in PageIds :
        /\ last = Call("try_write", p, "PageInUseForRead", <<>>)
        /\ GuardsOn(p, "read") # {}
        /\ GuardsOn(p, "write") = {}

\* C3 - try_read and try_write through any handle of a page, called while a
\* write guard of that page is alive, both return PageInUseForWrite and create
\* no guard.
C3_RefusedWhileWrite ==
    [][\A h \in HandleIds :
         (/\ PinnedPage_try_read(h) \/ PinnedPage_try_write(h)
          /\ GuardsOn(handles[h].id, "write") # {})
         => (/\ last'.res = "PageInUseForWrite"
             /\ guards' = guards
             /\ pool' = pool)]_vars

\* A try_write has just been refused with PageInUseForWrite through a second
\* handle of a page whose write guard is alive.
C3_Witness ==
    \E p \in PageIds :
        /\ last = Call("try_write", p, "PageInUseForWrite", <<>>)
        /\ GuardsOn(p, "write") # {}
        /\ Cardinality(HandlesOn(p)) = 2

\* C4 - Pin conservation: while a handle is alive its page is in the directory
\* with pins >= 1, and dropping the handle lowers the pins of its page by
\* exactly 1 and changes the pins of no other page.
C4_PinConservation ==
    /\ [](\A h \in DOMAIN handles :
            Resident(handles[h].id) /\ Meta(handles[h].id).pins >= 1)
    /\ [][\A h \in HandleIds :
            PinnedPage_drop(h) =>
              /\ pool'.page_state[handles[h].id].pins
                   = Meta(handles[h].id).pins - 1
              /\ \A q \in DOMAIN pool.page_state \ {handles[h].id} :
                   pool'.page_state[q].pins = Meta(q).pins
              /\ DOMAIN pool'.page_state = DOMAIN pool.page_state]_vars

\* A handle has just been dropped while another handle of the same page is
\* alive.
C4_Witness ==
    \E p \in PageIds :
        /\ last = Call("drop_pinned", p, "Ok", <<>>)
        /\ HandlesOn(p) # {}
        /\ Meta(p).pins >= 1

\* C5 - In every reachable state, for every page in the directory, pins
\* equals the number of PinnedPage handles of that page that are alive, also
\* after a pin_page or allocate_page that returned an error.
C5_PinsCountHandles ==
    \A p \in DOMAIN pool.page_state :
        Meta(p).pins = Cardinality(HandlesOn(p))

\* C6 as stated - once POOL_SIZE ids are resident, pin_page and allocate_page
\* of any further non-resident id return PoolIsFull, and never earlier;
\* pin_page of a resident id never returns PoolIsFull and never grows the
\* arena.
C6_CapacityAsStated ==
    [][\A p \in PageIds :
         /\ (/\ PageStore_pin_page(p) \/ PageStore_allocate_page(p)
             /\ ~Resident(p)
             /\ Cardinality(DOMAIN pool.page_state) >= POOL_SIZE)
            => last'.res = "PoolIsFull"
         /\ (/\ PageStore_pin_page(p) \/ PageStore_allocate_page(p)
             /\ last'.res = "PoolIsFull")
            => Cardinality(DOMAIN pool.page_state) >= POOL_SIZE
         /\ (PageStore_pin_page(p) /\ Resident(p))
            => (last'.res # "PoolIsFull" /\ Len(pool'.pages) = Len(pool.pages))
      ]_vars

\* C6 amended - once POOL_SIZE ids are resident, pin_page of any further
\* non-resident id returns PoolIsFull, and allocate_page of a further
\* non-resident id returns PoolIsFull when the backend does not hold the id and
\* Storage(PageAlreadyExists) when it does; PoolIsFull is never returned
\* earlier; pin_page of a resident id never returns PoolIsFull and never grows
\* the arena.
C6_Capacity ==
    [][\A p \in PageIds :
         /\ (/\ PageStore_pin_page(p)
             /\ ~Resident(p)
             /\ Cardinality(DOMAIN pool.page_state) >= POOL_SIZE)
            => last'.res = "PoolIsFull"
         /\ (/\ PageStore_allocate_page(p)
             /\ ~Resident(p)
             /\ Cardinality(DOMAIN pool.page_state) >= POOL_SIZE)
            => last'.res = IF p \in DOMAIN pool.storage
                             THEN "Storage(PageAlreadyExists)"
                             ELSE "PoolIsFull"
         /\ (/\ PageStore_pin_page(p) \/ PageStore_allocate_page(p)
             /\ last'.res = "PoolIsFull")
            => Cardinality(DOMAIN pool.page_state) >= POOL_SIZE
         /\ (PageStore_pin_page(p) /\ Resident(p))
            => (last'.res # "PoolIsFull" /\ Len(pool'.pages) = Len(pool.pages))
      ]_vars

\* The pool is full and a pin_page of a further id has just returned PoolIsFull.
C6_Witness ==
    /\ Cardinality(DOMAIN pool.page_state) = POOL_SIZE
    /\ last.op = "pin_page"
    /\ last.res = "PoolIsFull"
    /\ ~Resident(last.page)


\* C7 - Round-trip: once a byte has been stored at an offset of a page through
\* a write guard, every read guard alive on that page, obtained through any of
\* its handles, observes at that offset the byte stored last.
C7_RoundTrip ==
    \A g \in DOMAIN guards :
        guards[g].kind = "read" =>
            LET w == written[handles[guards[g].pinned].id] IN
            \A off \in DOMAIN w : Guard_deref(g)[off] = w[off]

\* A read guard has just been opened on a page whose slot is not the first one
\* and whose byte 0 was stored through a write guard released before.
C7_Witness ==
    \E g \in DOMAIN guards :
        LET p == handles[guards[g].pinned].id IN
        /\ guards[g].kind = "read"
        /\ last = Call("try_read", p, "Ok", <<>>)
        /\ 0 \in DOMAIN written[p]
        /\ written[p][0] = 255
        /\ Guard_deref(g)[0] = 255
        /\ Meta(p).index > 1

\* C8 - Residency retention: pin_page of a page that is in the directory with
\* pins = 0 keeps its slot index, does not call load_page, leaves the arena as
\* it is, and the slot holds the bytes stored last through a write guard.
C8_ResidencyRetention ==
    [][\A p \in PageIds :
         (PageStore_pin_page(p) /\ Resident(p) /\ Meta(p).pins = 0)
         => (/\ last'.res = "Ok"
             /\ last'.calls = <<>>
             /\ pool'.page_state[p].index = Meta(p).index
             /\ pool'.pages = pool.pages
             /\ \A off \in DOMAIN written[p] :
                  pool'.pages[Meta(p).index][off] = written[p][off])]_vars

\* A page has just been pinned again after all its handles were dropped, without
\* a backend call, and its slot holds the byte written, which differs from the
\* byte the backend holds.
C8_Witness ==
    \E p \in DOMAIN pool.page_state :
        /\ last = Call("pin_page", p, "Ok", <<>>)
        /\ Meta(p).pins = 1
        /\ Cardinality(HandlesOn(p)) = 1
        /\ 0 \in DOMAIN written[p]
        /\ p \in DOMAIN pool.storage
        /\ pool.storage[p][0] # written[p][0]
        /\ pool.pages[Meta(p).index][0] = written[p][0]

\* C9 - allocate_page of an id the backend already holds returns
\* Storage(PageAlreadyExists), resident or not, and leaves the directory, the
\* arena, the backend and the handles as they are.
C9_AllocateExisting ==
    [][\A p \in PageIds :
         (PageStore_allocate_page(p) /\ p \in DOMAIN pool.storage)
         => (/\ last'.res = "Storage(PageAlreadyExists)"
             /\ pool' = pool
             /\ handles' = handles)]_vars

\* A second allocate_page of a resident, pinned page has just been refused.
C9_Witness ==
    \E p \in DOMAIN pool.page_state :
        /\ last = Call("allocate_page", p, "Storage(PageAlreadyExists)",
                       <<"create_page">>)
        /\ p \notin PreloadedIds
        /\ HandlesOn(p) # {}

\* C10 - Shared reads: try_read on a resident page succeeds whenever no write
\* guard of that page is alive, whatever the number of read guards alive on
\* it, and each success raises readers by exactly 1.
C10_SharedReads ==
    /\ [](\A h \in DOMAIN handles :
            GuardsOn(handles[h].id, "write") = {}
              => PoolInternal_try_get_read(pool, handles[h].id).res = "Ok")
    /\ [][\A h \in HandleIds :
            (PinnedPage_try_read(h) /\ GuardsOn(handles[h].id, "write") = {})
            => (/\ last'.res = "Ok"
                /\ pool'.page_state[handles[h].id].readers
                     = Meta(handles[h].id).readers + 1
                /\ Cardinality(DOMAIN guards') = Cardinality(DOMAIN guards) + 1)
       ]_vars

\* A second read guard has just been opened on a page while the first is alive.
C10_Witness ==
    \E p \in DOMAIN pool.page_state :
        /\ last = Call("try_read", p, "Ok", <<>>)
        /\ Cardinality(GuardsOn(p, "read")) = 2
        /\ Meta(p).readers = 2


\* C11 - No leaked lock: whenever no read guard and no write guard of a
\* resident page is alive, its readers is 0 and its writer is false, so that
\* try_get_read and try_get_write on it return Ok; every try_read and try_write
\* step taken in such a state succeeds.
C11_NoLeakedLock ==
    /\ [](\A p \in DOMAIN pool.page_state :
            (GuardsOn(p, "read") = {} /\ GuardsOn(p, "write") = {})
            => (/\ Meta(p).readers = 0
                /\ Meta(p).writer = FALSE
                /\ PoolInternal_try_get_read(pool, p).res = "Ok"
                /\ PoolInternal_try_get_write(pool, p).res = "Ok"))
    /\ [][\A h \in HandleIds :
            (/\ PinnedPage_try_read(h) \/ PinnedPage_try_write(h)
             /\ GuardsOn(handles[h].id, "read") = {}
             /\ GuardsOn(handles[h].id, "write") = {})
            => last'.res = "Ok"]_vars

\* A try_write has just succeeded on a page whose bytes were stored through an
\* earlier write guard, so that guard was released in between.
C11_Witness ==
    \E p \in DOMAIN pool.page_state :
        /\ last = Call("try_write", p, "Ok", <<>>)
        /\ 0 \in DOMAIN written[p]
        /\ Cardinality(GuardsOn(p, "write")) = 1
        /\ Cardinality(HandlesOn(p)) = 2

\* C12 - Releases are infallible: no Drop impl has panicked, and in every
\* reachable state unpin_page for a live handle, release_read for a live read
\* guard and release_write for a live write guard return Ok: the PageMeta is
\* found and the counter is not 0.
C12_ReleasesInfallible ==
    /\ ~panicked
    /\ \A h \in DOMAIN handles :
          PoolInternal_unpin_page(pool, handles[h].id).res = "Ok"
    /\ \A g \in DOMAIN guards :
          LET p == handles[guards[g].pinned].id IN
          IF guards[g].kind = "read"
            THEN PoolInternal_release_read(pool, p).res = "Ok"
            ELSE PoolInternal_release_write(pool, p).res = "Ok"

\* The last handle of a page has just been dropped, after its guards: pins,
\* and readers are back at 0 and nothing has panicked.
C12_Witness ==
    \E p \in DOMAIN pool.page_state :
        /\ last = Call("drop_pinned", p, "Ok", <<>>)
        /\ Meta(p).pins = 0
        /\ Meta(p).readers = 0
        /\ 0 \in DOMAIN written[p]
        /\ ~panicked

\* C13 - Guard bookkeeping: for every page in the directory, readers is the
\* number of read guards alive on it and writer is true exactly when one write
\* guard is alive on it.
C13_GuardBookkeeping ==
    \A p \in DOMAIN pool.page_state :
        /\ Meta(p).readers = Cardinality(GuardsOn(p, "read"))
        /\ Meta(p).writer <=> (Cardinality(GuardsOn(p, "write")) = 1)

\* One of two read guards of a page has just been dropped; readers is 1.
C13_Witness ==
    \E p \in DOMAIN pool.page_state :
        /\ last = Call("drop_const", p, "Ok", <<>>)
        /\ Meta(p).readers = 1
        /\ Cardinality(GuardsOn(p, "read")) = 1

\* C14 - Slot assignment: distinct ids of the directory have distinct slot
\* indexes, each index is a slot of the arena, the directory has as many
\* entries as the arena has slots, at most POOL_SIZE, and no step changes the
\* index of a page.
C14_SlotAssignment ==
    /\ [](/\ \A p, q \in DOMAIN pool.page_state :
               p # q => Meta(p).index # Meta(q).index
          /\ \A p \in DOMAIN pool.page_state :
               Meta(p).index \in 1 .. Len(pool.pages)
          /\ Cardinality(DOMAIN pool.page_state) = Len(pool.pages)
          /\ Len(pool.pages) <= POOL_SIZE)
    /\ [][\A p \in DOMAIN pool.page_state :
            /\ p \in DOMAIN pool'.page_state
            /\ pool'.page_state[p].index = Meta(p).index]_vars

\* The arena is full: POOL_SIZE pages hold POOL_SIZE different slots, and a
\* further pin has been refused.
C14_Witness ==
    /\ Len(pool.pages) = POOL_SIZE
    /\ Cardinality({Meta(p).index : p \in DOMAIN pool.page_state}) = POOL_SIZE
    /\ last.res = "PoolIsFull"


\* C15 as stated - No reclamation: an id of the directory stays in it in every
\* later state, also when its pins drops to 0; and once a pin_page has returned
\* PoolIsFull, every later pin_page and allocate_page of a non-resident id
\* returns PoolIsFull.
C15_NoReclamationAsStated ==
    [][/\ DOMAIN pool.page_state \subseteq DOMAIN pool'.page_state
       /\ \A p \in PageIds :
            (/\ full_seen
             /\ PageStore_pin_page(p) \/ PageStore_allocate_page(p)
             /\ ~Resident(p))
            => last'.res = "PoolIsFull"]_vars

\* C15 amended - No reclamation: an id of the directory stays in it in every
\* later state, also when its pins drops to 0; and once a pin_page has returned
\* PoolIsFull, every later pin_page of a non-resident id returns PoolIsFull and
\* every later allocate_page of a non-resident id returns PoolIsFull, or
\* Storage(PageAlreadyExists) when the backend already holds the id; none of
\* them makes the id resident.
C15_NoReclamation ==
    [][/\ DOMAIN pool.page_state \subseteq DOMAIN pool'.page_state
       /\ \A p \in PageIds :
            /\ (full_seen /\ PageStore_pin_page(p) /\ ~Resident(p))
               => last'.res = "PoolIsFull"
            /\ (full_seen /\ PageStore_allocate_page(p) /\ ~Resident(p))
               => last'.res = IF p \in DOMAIN pool.storage
                                THEN "Storage(PageAlreadyExists)"
                                ELSE "PoolIsFull"
            /\ (/\ full_seen
                /\ PageStore_pin_page(p) \/ PageStore_allocate_page(p)
                /\ ~Resident(p))
               => DOMAIN pool'.page_state = DOMAIN pool.page_state]_vars

\* A pin_page of a non-resident id has just returned PoolIsFull again, after an
\* earlier one did, although every handle has been dropped and every page of the
\* directory has pins = 0.
C15_Witness ==
    /\ full_seen
    /\ last.op = "pin_page"
    /\ last.res = "PoolIsFull"
    /\ handles = <<>>
    /\ Len(pool.pages) = POOL_SIZE
    /\ \A p \in DOMAIN pool.page_state : Meta(p).pins = 0

\* C16 - Frame: a step on page p leaves the PageMeta and the slot bytes of every
\* other page of the directory unchanged; pin_page, allocate_page and the drop
\* of a handle leave readers and writer of p unchanged; acquiring, using and
\* releasing a guard leave pins of p unchanged; and try_read / try_write on a
\* page without live guards succeeds whatever guards other pages have.
C16_Frame ==
    [][/\ \A q \in DOMAIN pool.page_state :
            q # last'.page =>
              /\ pool'.page_state[q] = Meta(q)
              /\ pool'.pages[Meta(q).index] = pool.pages[Meta(q).index]
       /\ (/\ last'.op \in {"pin_page", "allocate_page", "drop_pinned"}
           /\ Resident(last'.page))
          => /\ pool'.page_state[last'.page].readers = Meta(last'.page).readers
             /\ pool'.page_state[last'.page].writer = Meta(last'.page).writer
       /\ last'.op \in {"try_read", "try_write", "deref_mut",
                        "drop_const", "drop_mut"}
          => pool'.page_state[last'.page].pins = Meta(last'.page).pins
       /\ \A h \in HandleIds :
            (/\ PinnedPage_try_read(h) \/ PinnedPage_try_write(h)
             /\ GuardsOn(handles[h].id, "read") = {}
             /\ GuardsOn(handles[h].id, "write") = {})
            => last'.res = "Ok"]_vars

\* A write guard has just been opened on one page while a write guard of
\* another page is alive.
C16_Witness ==
    \E p, q \in DOMAIN pool.page_state :
        /\ p # q
        /\ last = Call("try_write", q, "Ok", <<>>)
        /\ GuardsOn(p, "write") # {}
        /\ GuardsOn(q, "write") # {}


\* C17 - A pin_page of a non-resident id that fails with Storage(NotFound)
\* leaves the pool unchanged: the id is not in the directory afterwards, no slot
\* is consumed and no pins counter is raised.
C17_FailedPinLeavesPool ==
    [][\A p \in PageIds :
          (/\ PageStore_pin_page(p)
           /\ ~Resident(p)
           /\ last'.res = "Storage(NotFound)")
          => /\ pool' = pool
             /\ p \notin DOMAIN pool'.page_state
             /\ Len(pool'.pages) = Len(pool.pages)]_vars

\* C18 - pin_page(id) returns a handle only if the backend holds page id: the
\* pin of an id that was never created on the backend fails with
\* Storage(NotFound) or PoolIsFull and yields no PinnedPage, also on a repeated
\* attempt after an earlier failed pin of the same id.
C18_HandleOnlyIfBackendHolds ==
    [][\A p \in PageIds :
          (PageStore_pin_page(p) /\ p \notin DOMAIN pool.storage)
          => /\ last'.res \in {"Storage(NotFound)", "PoolIsFull"}
             /\ handles' = handles]_vars

\* C19 - An allocate_page that fails with PoolIsFull leaves the backend
\* unchanged: the id is not created on the backend, and repeating the same
\* allocate_page returns PoolIsFull again, not Storage(PageAlreadyExists).
C19_FailedAllocateLeavesBackend ==
    [][\A p \in PageIds :
          /\ (PageStore_allocate_page(p) /\ last'.res = "PoolIsFull")
             => /\ pool'.storage = pool.storage
                /\ p \notin DOMAIN pool'.storage
          /\ (/\ PageStore_allocate_page(p)
              /\ last.op = "allocate_page"
              /\ last.page = p
              /\ last.res = "PoolIsFull")
             => last'.res = "PoolIsFull"]_vars

\* C20 - Guards imply a pin: a page with readers > 0 or writer = TRUE has
\* pins >= 1, and the handle a live guard was obtained from is itself live.
C20_GuardsImplyPin ==
    /\ \A p \in DOMAIN pool.page_state :
          (Meta(p).readers > 0 \/ Meta(p).writer) => Meta(p).pins >= 1
    /\ \A g \in DOMAIN guards :
          /\ guards[g].pinned \in DOMAIN handles
          /\ Meta(handles[guards[g].pinned].id).pins >= 1

\* One of two handles of a page has just been dropped while a read guard taken
\* from the other handle is alive: readers > 0 and pins >= 1.
C20_Witness ==
    /\ last.op = "drop_pinned"
    /\ last.res = "Ok"
    /\ Resident(last.page)
    /\ GuardsOn(last.page, "read") # {}
    /\ Meta(last.page).readers > 0
    /\ Meta(last.page).pins >= 1


=============================================================================
